---- MODULE Spec2Model ----
(***************************************************************************)
(* Function analysis of autocxx (engine/src/conversion/analysis/fun).      *)
(*                                                                         *)
(* FnAnalyzer::analyze_functions walks the declarations bindgen produced   *)
(* and, per declaration, FnAnalyzer::analyze_foreign_fn decides its kind,  *)
(* its three names (C++ name, cxx::bridge name, Rust name) and whether a   *)
(* C++ wrapper function is needed.  The analyzer's state is three name     *)
(* trackers and the list of extra APIs.                                    *)
(*                                                                         *)
(* Representation.  An identifier is a sequence of lexemes whose           *)
(* concatenation is the identifier's text: <<"W", "_", "m", "1">> is       *)
(* W_m1.  The lexemes are chosen so that no identifier has two lexings,    *)
(* which makes equality, starts_with and ends_with on the lexeme sequence  *)
(* agree with the same tests on the text.  Option<T> is a sequence of      *)
(* length 0 (None) or 1 (Some).  A syn::Type is a record [shape, name]:    *)
(* Path (a named type by value), Ptr (a pointer to a named type),          *)
(* Reference, UniquePtr, or Array (any other shape).                       *)
(***************************************************************************)
EXTENDS Integers, Sequences, FiniteSets, TLC

VARIABLES
    config,      \* IncludeCppConfig and UnsafePolicy of the run
    me,          \* the FnAnalyzer: its trackers and extra_apis
    me_before,   \* the FnAnalyzer as the last call of analyze_foreign_fn found it
    apis,        \* the declarations handed to analyze_foreign_fn so far
    outcomes,    \* how analyze_foreign_fn ended for each of them
    panicked,    \* a panic unwound the run
    classified   \* the types handed to the two conversion classifiers, and
                 \* the policies they answered

vars == <<config, me, me_before, apis, outcomes, panicked, classified>>

(***************************************************************************)
(* Bounds of the model.                                                    *)
(***************************************************************************)
\* declarations per run
MaxDecls == 3
\* types classified per run
MaxClassified == 2

None == <<>>
Some(x) == <<x>>

(***************************************************************************)
(* Text helpers (str::starts_with, str::ends_with, format!, join).         *)
(***************************************************************************)
starts_with(s, p) ==
    /\ Len(p) <= Len(s)
    /\ SubSeq(s, 1, Len(p)) = p

ends_with(s, p) ==
    /\ Len(p) <= Len(s)
    /\ SubSeq(s, Len(s) - Len(p) + 1, Len(s)) = p

\* s[n..]
skip(s, n) == SubSeq(s, n + 1, Len(s))

RECURSIVE join(_, _)
join(parts, sep) ==
    IF Len(parts) = 0 THEN <<>>
    ELSE IF Len(parts) = 1 THEN parts[1]
    ELSE parts[1] \o sep \o join(Tail(parts), sep)

\* HashMap::entry(k).or_default() read, and insert
Get(m, k) == IF k \in DOMAIN m THEN m[k] ELSE 0
Put(m, k, v) == [x \in DOMAIN m \cup {k} |-> IF x = k THEN v ELSE m[x]]
EmptyMap == [x \in {} |-> 0]

(***************************************************************************)
(* Types of the run.                                                       *)
(***************************************************************************)
Path(n) == [shape |-> "Path", name |-> n]
Ptr(n) == [shape |-> "Ptr", name |-> n]
Reference(n) == [shape |-> "Reference", name |-> n]
UniquePtr(n) == [shape |-> "UniquePtr", name |-> n]
Array(n) == [shape |-> "Array", name |-> n]

\* known_types(): the built-in types
KnownPodSafeTypes == {"int"}
KnownStringTypes == {"string"}
UnacceptableReceivers == {"A"}
\* types the type converter synthesises an extra API for
ConcreteTemplates == {"T"}

\* The struct and enum APIs of the run, as the POD analysis left them.
StructApis ==
    { [name |-> "P", kind |-> "Pod"],
      [name |-> "S", kind |-> "NonPod"],
      [name |-> "W", kind |-> "NonPod"],
      [name |-> "V", kind |-> "NonPod"],
      [name |-> "A", kind |-> "NonPod"] }

build_pod_safe_type_set ==
    {a.name : a \in {s \in StructApis : s.kind = "Pod"}} \cup KnownPodSafeTypes

is_cvoid(tn) == tn = "c_void"
convertible_from_strs(tn) == tn \in KnownStringTypes
is_cxx_acceptable_receiver(tn) == tn \notin UnacceptableReceivers

is_on_allowlist(cfg, type_name) == type_name \in cfg.allowlist
exclude_utilities(cfg) == cfg.exclude_utilities
should_be_unsafe(cfg) == cfg.unsafe_policy = "AllFunctionsUnsafe"

(***************************************************************************)
(* Identifier grammars.                                                    *)
(***************************************************************************)
RustKeywords == {<<"move">>}

validate_ident_ok_for_rust(id) == id \notin RustKeywords

validate_ident_ok_for_cxx(id) ==
    ~ \E i \in 1..(Len(id) - 1) : id[i] = "_" /\ id[i + 1] = "_"

(***************************************************************************)
(* OverloadTracker: per namespace, counts the declarations seen per name   *)
(* (functions) and per owning type and name (methods).                     *)
(***************************************************************************)
NewOverloadTracker ==
    [offset_by_name |-> EmptyMap, offset_by_type_and_name |-> EmptyMap]

\* format!("{}{}", name, offset), or the name alone for the first one
with_offset(name, offset) ==
    IF offset = 0 THEN name ELSE name \o <<ToString(offset)>>

get_function_real_name(tracker, found_name) ==
    LET this_offset == Get(tracker.offset_by_name, found_name)
    IN  [tracker |-> [tracker EXCEPT !.offset_by_name =
                          Put(@, found_name, this_offset + 1)],
         name |-> with_offset(found_name, this_offset)]

\* the {class}_ prefix bindgen puts before a method's name
strip_type_prefix(type_name, found_name) ==
    IF starts_with(found_name, <<type_name, "_">>)
    THEN skip(found_name, 2)
    ELSE found_name

get_method_real_name(tracker, type_name, found_name) ==
    LET stripped == strip_type_prefix(type_name, found_name)
        key == <<type_name, stripped>>
        this_offset == Get(tracker.offset_by_type_and_name, key)
    IN  [tracker |-> [tracker EXCEPT !.offset_by_type_and_name =
                          Put(@, key, this_offset + 1)],
         name |-> with_offset(stripped, this_offset)]

(***************************************************************************)
(* BridgeNameTracker: the names already given out in the flat cxx::bridge  *)
(* namespace.                                                              *)
(***************************************************************************)
NewBridgeNameTracker == [used |-> {}]

\* namespace, then owning type, then name, joined by underscores
qualified_bridge_name(type_name, found_name, ns) ==
    join([i \in 1..Len(ns) |-> <<ns[i]>>]
             \o (IF type_name = None THEN <<>> ELSE << <<type_name[1]>> >>)
             \o <<found_name>>,
         <<"_">>)

get_unique_cxx_bridge_name(tracker, type_name, found_name, ns) ==
    LET prefix == qualified_bridge_name(type_name, found_name, ns)
        free(n) == (prefix \o <<ToString(n)>>) \notin tracker.used
        count == CHOOSE n \in 1..(Cardinality(tracker.used) + 1) :
                     free(n) /\ \A k \in 1..(n - 1) : ~ free(k)
        name == IF found_name \notin tracker.used THEN found_name
                ELSE IF prefix \notin tracker.used THEN prefix
                ELSE prefix \o <<ToString(count)>>
    IN  [tracker |-> [used |-> tracker.used \cup {name}], name |-> name]

(***************************************************************************)
(* RustNameTracker: the Rust names free functions have claimed.            *)
(***************************************************************************)
NewRustNameTracker == [names_found |-> {}]

ok_to_use_rust_name(tracker, rust_name) ==
    [tracker |-> [names_found |-> tracker.names_found \cup {rust_name}],
     ok |-> rust_name \notin tracker.names_found]

(***************************************************************************)
(* TypeConversionPolicy (function_wrapper) and the type converter.         *)
(***************************************************************************)
new_unconverted(ty) == [unwrapped_type |-> ty, conversion |-> "Unconverted"]
new_from_str(ty) == [unwrapped_type |-> ty, conversion |-> "FromStr"]
new_from_unique_ptr(ty) == [unwrapped_type |-> ty, conversion |-> "FromUniquePtr"]
new_to_unique_ptr(ty) == [unwrapped_type |-> ty, conversion |-> "ToUniquePtr"]

cpp_work_needed(policy) == policy.conversion # "Unconverted"

\* the type the cxx::bridge declares for an argument
converted_rust_type(policy) ==
    IF policy.conversion \in {"FromStr", "FromUniquePtr"}
    THEN UniquePtr(policy.unwrapped_type.name)
    ELSE policy.unwrapped_type

\* the type the cxx::bridge declares for a return value
unconverted_rust_type(policy) ==
    IF policy.conversion = "ToUniquePtr"
    THEN UniquePtr(policy.unwrapped_type.name)
    ELSE policy.unwrapped_type

ConvertOk(ty, deps, requires_unsafe, extra) ==
    [ok |-> TRUE, err |-> "", ty |-> ty, types_encountered |-> deps,
     requires_unsafe |-> requires_unsafe, extra_apis |-> extra]

ConvertFailed(err, ty) ==
    [ok |-> FALSE, err |-> err, ty |-> ty, types_encountered |-> {},
     requires_unsafe |-> FALSE, extra_apis |-> <<>>]

\* TypeConverter::convert_boxed_type in the context CxxOuterType
type_converter_convert_boxed_type(ty, ns, convert_ptrs_to_references) ==
    LET extra == IF ty.name \in ConcreteTemplates THEN <<ty.name>> ELSE <<>>
    IN  IF ty.shape = "Array" THEN ConvertFailed("UnsupportedType", ty)
        ELSE IF ty.shape = "Ptr" /\ convert_ptrs_to_references
        THEN ConvertOk(Reference(ty.name), {ty.name}, FALSE, extra)
        ELSE ConvertOk(ty, {ty.name}, ty.shape = "Ptr", extra)

(***************************************************************************)
(* ConvertError and ErrorContext.                                          *)
(***************************************************************************)
ConvertError(kind, ns, name) == [kind |-> kind, ns |-> ns, name |-> name]

ErrorContextItem(id) == [variant |-> "Item", self_ty |-> "", name |-> id]
ErrorContextMethod(self_ty, method) ==
    [variant |-> "Method", self_ty |-> self_ty, name |-> method]

(***************************************************************************)
(* A declaration (ApiName and FuncToConvert) is a record                   *)
(*   ns, cpp_name                 of the ApiName                           *)
(*   ident, inputs, output, attrs of the ForeignItemFn                     *)
(*   self_ty, virtual_this_type   of the FuncToConvert                     *)
(* inputs is a sequence of [pat, ty]; attrs records the bindgen            *)
(* annotations.                                                            *)
(***************************************************************************)
has_attr(attrs, name) == attrs[name]

get_bindgen_special_member_annotation(fun) == fun.attrs.bindgen_special_member

\* is_move_constructor, looking for another annotation
is_move_constructor_by_copy_annotation(fun) ==
    LET val == get_bindgen_special_member_annotation(fun)
    IN  val # None /\ val[1] = "copy_ctor"

is_move_constructor(fun) ==
    LET val == get_bindgen_special_member_annotation(fun)
    IN  val # None /\ val[1] = "move_ctor"

get_reference_parameters_and_return(fun) ==
    [ref_params |-> fun.attrs.bindgen_arg_type_reference,
     ref_return |-> fun.attrs.bindgen_ret_type_reference]

(***************************************************************************)
(* Arguments and return type.                                              *)
(***************************************************************************)
\* argument_conversion_details, the POD-safe types not looked up
argument_conversion_details_nothing_pod_safe(cfg, pod_safe_types, ty) ==
    IF ty.shape = "Path"
    THEN IF convertible_from_strs(ty.name) /\ ~ exclude_utilities(cfg)
         THEN new_from_str(ty)
         ELSE new_from_unique_ptr(ty)
    ELSE new_unconverted(ty)

argument_conversion_details(cfg, pod_safe_types, ty) ==
    IF ty.shape = "Path"
    THEN IF ty.name \in pod_safe_types THEN new_unconverted(ty)
         ELSE IF convertible_from_strs(ty.name) /\ ~ exclude_utilities(cfg)
         THEN new_from_str(ty)
         ELSE new_from_unique_ptr(ty)
    ELSE new_unconverted(ty)

\* return_type_conversion_details, answering as for an argument that
\* arrives owned
return_type_conversion_details_from_unique_ptr(pod_safe_types, ty) ==
    IF ty.shape = "Path"
    THEN IF ty.name \in pod_safe_types THEN new_unconverted(ty)
         ELSE new_from_unique_ptr(ty)
    ELSE new_unconverted(ty)

return_type_conversion_details(pod_safe_types, ty) ==
    IF ty.shape = "Path"
    THEN IF ty.name \in pod_safe_types THEN new_unconverted(ty)
         ELSE new_to_unique_ptr(ty)
    ELSE new_unconverted(ty)

ArgFailed(err) ==
    [ok |-> FALSE, err |-> err, arg |-> [pat |-> <<>>, ty |-> Path("")],
     extra_apis |-> <<>>,
     analysis |-> [conversion |-> new_unconverted(Path("")), name |-> <<>>,
                   self_type |-> None, was_reference |-> FALSE, deps |-> {},
                   is_virtual |-> FALSE, requires_unsafe |-> FALSE]]

\* The end of convert_fn_arg: the argument and its analysis, from what the
\* type converter says of its type.
converted_fn_arg(cfg, pod_safe_types, new_pat, self_type, is_virtual, annotated) ==
    LET new_ty == annotated.ty
    IN  IF ~ annotated.ok
        THEN ArgFailed(ConvertError(annotated.err, <<>>, <<>>))
        ELSE [ok |-> TRUE, err |-> ConvertError("", <<>>, <<>>),
              arg |-> [pat |-> new_pat, ty |-> new_ty],
              extra_apis |-> annotated.extra_apis,
              analysis |->
                  [conversion |-> argument_conversion_details(cfg, pod_safe_types, new_ty),
                   name |-> new_pat,
                   self_type |-> self_type,
                   was_reference |-> new_ty.shape = "Reference",
                   deps |-> annotated.types_encountered,
                   is_virtual |-> is_virtual,
                   requires_unsafe |-> annotated.requires_unsafe]]

\* The tail of convert_fn_arg, once the pattern has been looked at.
convert_fn_arg_type(cfg, pod_safe_types, ns, new_pat, ty, self_type, is_virtual, treat_as_reference) ==
    converted_fn_arg(cfg, pod_safe_types, new_pat, self_type, is_virtual,
                     type_converter_convert_boxed_type(ty, ns, treat_as_reference))

convert_fn_arg(cfg, pod_safe_types, arg, ns, fn_name, virtual_this, reference_args) ==
    IF arg.pat = <<"this">>
    THEN IF arg.ty.shape # "Ptr"
         THEN ArgFailed(ConvertError("UnexpectedThisType", ns, fn_name))
         ELSE IF is_cvoid(arg.ty.name)
         THEN IF virtual_this = None
              THEN ArgFailed(ConvertError("VirtualThisType", ns, fn_name))
              ELSE convert_fn_arg_type(cfg, pod_safe_types, ns, <<"self">>,
                                       Ptr(virtual_this[1]), Some(virtual_this[1]),
                                       TRUE, TRUE)
         ELSE convert_fn_arg_type(cfg, pod_safe_types, ns, <<"self">>, arg.ty,
                                  Some(arg.ty.name), FALSE, TRUE)
    ELSE IF ~ validate_ident_ok_for_cxx(arg.pat)
         THEN ArgFailed(ConvertError("InvalidIdent", <<>>, arg.pat))
         ELSE convert_fn_arg_type(cfg, pod_safe_types, ns, arg.pat, arg.ty, None,
                                  FALSE, arg.pat \in reference_args)

ReturnTypeAnalysis(ok, err, rt, conversion, was_reference, deps, extra) ==
    [ok |-> ok, err |-> err, rt |-> rt, conversion |-> conversion,
     was_reference |-> was_reference, deps |-> deps, extra_apis |-> extra]

\* the ReturnType::Type arm of convert_return_type
converted_return_type(pod_safe_types, annotated) ==
    IF ~ annotated.ok
    THEN ReturnTypeAnalysis(FALSE, annotated.err, None, None, FALSE, {}, <<>>)
    ELSE ReturnTypeAnalysis(
             TRUE, "", Some(annotated.ty),
             Some(return_type_conversion_details(pod_safe_types, annotated.ty)),
             annotated.ty.shape = "Reference",
             annotated.types_encountered, annotated.extra_apis)

convert_return_type(pod_safe_types, rt, ns, convert_ptr_to_reference) ==
    IF rt = None
    THEN ReturnTypeAnalysis(TRUE, "", None, None, FALSE, {}, <<>>)
    ELSE converted_return_type(
             pod_safe_types,
             type_converter_convert_boxed_type(rt[1], ns, convert_ptr_to_reference))

\* the return analysis of a constructor: the constructed type, to a UniquePtr
constructor_return_analysis(self_ty) ==
    ReturnTypeAnalysis(TRUE, "", Some(Path(self_ty)),
                       Some(new_to_unique_ptr(Path(self_ty))), FALSE, {self_ty}, <<>>)

(***************************************************************************)
(* analyze_foreign_fn, step by step.                                       *)
(***************************************************************************)
FnKindFunction == [fn |-> "Function", self_ty |-> "", method_kind |-> ""]
FnKindMethod(self_ty, method_kind) ==
    [fn |-> "Method", self_ty |-> self_ty, method_kind |-> method_kind]

\* Naming, part one: what bindgen's mangling of the name is worth.
ideal_rust_name(cpp_name, initial_rust_name) ==
    IF cpp_name = None THEN initial_rust_name
    ELSE IF ends_with(initial_rust_name, <<"_">>) THEN initial_rust_name
    ELSE IF ~ validate_ident_ok_for_rust(cpp_name[1]) THEN cpp_name[1] \o <<"_">>
    ELSE cpp_name[1]

\* partition(Result::is_ok), then unzip
partition_params(converted) ==
    LET goods == SelectSeq(converted, LAMBDA r : r.ok)
        bads == SelectSeq(converted, LAMBDA r : ~ r.ok)
    IN  [params |-> [i \in 1..Len(goods) |-> goods[i].arg],
         param_details |-> [i \in 1..Len(goods) |-> goods[i].analysis],
         bads |-> [i \in 1..Len(bads) |-> bads[i].err],
         extra_apis |-> join([i \in 1..Len(goods) |-> goods[i].extra_apis], <<>>)]

\* The parameters, converted one by one and partitioned into good and bad.
analyze_params(cfg, pod_safe_types, d) ==
    partition_params(
        [i \in 1..Len(d.inputs) |->
            convert_fn_arg(cfg, pod_safe_types, d.inputs[i], d.ns,
                           IF d.cpp_name = None THEN d.ident ELSE d.cpp_name[1],
                           d.virtual_this_type,
                           get_reference_parameters_and_return(d).ref_params)])

\* the self type of the first parameter that has one
first_self_type(param_details) ==
    LET with_self == SelectSeq(param_details, LAMBDA pd : pd.self_type # None)
    IN  IF with_self = <<>> THEN None ELSE with_self[1].self_type

\* method_kind_of, a constructor being the method called new
method_kind_of_constructor_called_new(rust_name, type_ident, is_static_method, param_details, attrs) ==
    IF starts_with(rust_name, <<"new">>) THEN "Constructor"
    ELSE IF is_static_method THEN "Static"
    ELSE IF \E i \in 1..Len(param_details) : param_details[i].is_virtual
    THEN IF has_attr(attrs, "bindgen_pure_virtual") THEN "PureVirtual" ELSE "Virtual"
    ELSE "Normal"

\* method_kind_of, the constructors looked for last
method_kind_of_constructor_last(rust_name, type_ident, is_static_method, param_details, attrs) ==
    IF is_static_method THEN "Static"
    ELSE IF \E i \in 1..Len(param_details) : param_details[i].is_virtual
    THEN IF has_attr(attrs, "bindgen_pure_virtual") THEN "PureVirtual" ELSE "Virtual"
    ELSE IF starts_with(rust_name, <<type_ident>>) THEN "Constructor"
    ELSE "Normal"

\* The kind of a method, once the overload tracker has named it.
method_kind_of(rust_name, type_ident, is_static_method, param_details, attrs) ==
    IF starts_with(rust_name, <<type_ident>>) THEN "Constructor"
    ELSE IF is_static_method THEN "Static"
    ELSE IF \E i \in 1..Len(param_details) : param_details[i].is_virtual
    THEN IF has_attr(attrs, "bindgen_pure_virtual") THEN "PureVirtual" ELSE "Virtual"
    ELSE "Normal"

\* the Rust name of a method, a constructor keeping the name of its type
method_rust_name_unchanged(rust_name, type_ident) == rust_name

\* the Rust name of a method: a constructor is make_unique plus its suffix
method_rust_name(rust_name, type_ident) ==
    IF starts_with(rust_name, <<type_ident>>)
    THEN <<"make_unique">> \o skip(rust_name, 1)
    ELSE rust_name

\* one overload tracker for all the namespaces
overload_tracker_key_shared(ns) == <<>>

\* the key of a namespace in overload_trackers_by_mod
overload_tracker_key(ns) == ns

overload_tracker_entry(trackers, ns) ==
    IF overload_tracker_key(ns) \in DOMAIN trackers
    THEN trackers[overload_tracker_key(ns)]
    ELSE NewOverloadTracker

\* the reference check, letting through a function that takes no reference
ambiguous_reference_return_only_many(was_reference, num_input_references) ==
    was_reference /\ num_input_references > 1

\* cxx lets a function return a reference only if it takes exactly one
ambiguous_reference_return(was_reference, num_input_references) ==
    was_reference /\ num_input_references # 1

\* wrapper_function_needed, the kind of method not looked at
wrapper_function_needed_whatever_the_kind(kind, cxxbridge_name, rust_name, param_conversion_needed, ret_type_conversion_needed, cpp_name_incompatible_with_cxx) ==
    \/ kind.fn = "Method" /\ cxxbridge_name # rust_name
    \/ param_conversion_needed
    \/ ret_type_conversion_needed
    \/ cpp_name_incompatible_with_cxx

\* wrapper_function_needed, every method given a wrapper
wrapper_function_needed_by_every_method(kind, cxxbridge_name, rust_name, param_conversion_needed, ret_type_conversion_needed, cpp_name_incompatible_with_cxx) ==
    \/ kind.fn = "Method"
    \/ param_conversion_needed
    \/ ret_type_conversion_needed
    \/ cpp_name_incompatible_with_cxx

\* wrapper_function_needed, every differing cxx::bridge name counted
wrapper_function_needed_by_every_renamed(kind, cxxbridge_name, rust_name, param_conversion_needed, ret_type_conversion_needed, cpp_name_incompatible_with_cxx) ==
    \/ kind.fn = "Method" /\ kind.method_kind \in {"Static", "Virtual", "PureVirtual"}
    \/ cxxbridge_name # rust_name
    \/ param_conversion_needed
    \/ ret_type_conversion_needed
    \/ cpp_name_incompatible_with_cxx

\* Is a C++ wrapper function needed?
wrapper_function_needed(kind, cxxbridge_name, rust_name, param_conversion_needed, ret_type_conversion_needed, cpp_name_incompatible_with_cxx) ==
    \/ kind.fn = "Method" /\ kind.method_kind \in {"Static", "Virtual", "PureVirtual"}
    \/ kind.fn = "Method" /\ cxxbridge_name # rust_name
    \/ param_conversion_needed
    \/ ret_type_conversion_needed
    \/ cpp_name_incompatible_with_cxx

\* the cxx::bridge name of the wrapper function
wrapper_name(cxxbridge_name) ==
    LET joiner == IF ends_with(cxxbridge_name, <<"_">>) THEN <<>> ELSE <<"_">>
    IN  cxxbridge_name \o joiner \o <<"autocxx_wrapper">>

\* what the wrapper function calls, and whether it has a receiver
wrapper_payload(kind, ns, cpp_construction_ident) ==
    IF kind.fn = "Method" /\ kind.method_kind = "Constructor"
    THEN [payload |-> [variant |-> "Constructor", ns |-> <<>>, self_ty |-> "",
                       ident |-> <<>>],
          has_receiver |-> FALSE]
    ELSE IF kind.fn = "Method" /\ kind.method_kind = "Static"
    THEN [payload |-> [variant |-> "StaticMethodCall", ns |-> ns,
                       self_ty |-> kind.self_ty, ident |-> cpp_construction_ident],
          has_receiver |-> FALSE]
    ELSE [payload |-> [variant |-> "FunctionCall", ns |-> ns, self_ty |-> "",
                       ident |-> cpp_construction_ident],
          has_receiver |-> kind.fn = "Method"]

\* wrapper_params, the receiver keeping the name self
wrapper_params_keeping_names(kind, param_details) ==
    [i \in 1..Len(param_details) |->
        [pat |-> param_details[i].name,
         ty |-> converted_rust_type(param_details[i].conversion)]]

\* the parameters of the cxx::bridge entry of a wrapper function
wrapper_params(kind, param_details) ==
    [i \in 1..Len(param_details) |->
        [pat |-> IF /\ param_details[i].self_type # None
                    /\ ~ (kind.fn = "Method" /\ kind.method_kind = "Constructor")
                 THEN <<"autocxx_gen_this">>
                 ELSE param_details[i].name,
         ty |-> converted_rust_type(param_details[i].conversion)]]

RenameNone == [strategy |-> "None", name |-> <<>>]
RenameUsingRustAttr == [strategy |-> "RenameUsingRustAttr", name |-> <<>>]
RenameInOutputMod(id) == [strategy |-> "RenameInOutputMod", name |-> id]

\* final_naming, not asking whether the Rust name is still free
final_naming_name_always_free(kind, cxxbridge_name, rust_name, rust_name_ok) ==
    IF kind.fn = "Method" THEN [id |-> rust_name, strategy |-> RenameNone]
    ELSE IF cxxbridge_name = rust_name THEN [id |-> rust_name, strategy |-> RenameNone]
    ELSE [id |-> rust_name, strategy |-> RenameUsingRustAttr]

\* final_naming, methods renamed as functions are
final_naming_methods_renamed(kind, cxxbridge_name, rust_name, rust_name_ok) ==
    IF cxxbridge_name = rust_name THEN [id |-> rust_name, strategy |-> RenameNone]
    ELSE IF rust_name_ok THEN [id |-> rust_name, strategy |-> RenameUsingRustAttr]
    ELSE [id |-> cxxbridge_name, strategy |-> RenameInOutputMod(rust_name)]

\* Naming, part two: the final id and how the Rust name is reached.
final_naming(kind, cxxbridge_name, rust_name, rust_name_ok) ==
    IF kind.fn = "Method" THEN [id |-> rust_name, strategy |-> RenameNone]
    ELSE IF cxxbridge_name = rust_name THEN [id |-> rust_name, strategy |-> RenameNone]
    ELSE IF rust_name_ok THEN [id |-> rust_name, strategy |-> RenameUsingRustAttr]
    ELSE [id |-> cxxbridge_name, strategy |-> RenameInOutputMod(rust_name)]

NoAnalysis == [cxxbridge_name |-> <<>>]
NoError == ConvertError("", <<>>, <<>>)
NoContext == ErrorContextItem(<<>>)

\* Ok(None), Ok(Some(api)), Err(e) and a panic
RetNone == [tag |-> "None", err |-> NoError, ctx |-> NoContext,
            analysis |-> NoAnalysis, cpp_name |-> None, id |-> <<>>]
RetErr(err, ctx) == [tag |-> "Err", err |-> err, ctx |-> ctx,
                     analysis |-> NoAnalysis, cpp_name |-> None, id |-> <<>>]
RetPanic == [tag |-> "Panic", err |-> NoError, ctx |-> NoContext,
             analysis |-> NoAnalysis, cpp_name |-> None, id |-> <<>>]
RetOk(analysis, cpp_name, id) ==
    [tag |-> "Ok", err |-> NoError, ctx |-> NoContext,
     analysis |-> analysis, cpp_name |-> cpp_name, id |-> id]

\* The kind and the Rust name of a declaration: a method of self_ty, or a
\* function.  A constructor loses its first parameter; Vec::remove(0) panics
\* unless there is one.
resolve_kind(me1, d, ideal, analysed, self_ty, is_static_method) ==
    LET tracker == overload_tracker_entry(me1.overload_trackers_by_mod, d.ns)
    IN  IF self_ty # None
        THEN LET type_ident == self_ty[1]
                 named == get_method_real_name(tracker, type_ident, ideal)
                 method_kind == method_kind_of(named.name, type_ident, is_static_method,
                                               analysed.param_details, d.attrs)
                 rust_name == method_rust_name(named.name, type_ident)
                 is_ctor == method_kind = "Constructor"
             IN  [panic |-> is_ctor /\ analysed.param_details = <<>>,
                  me |-> [me1 EXCEPT !.overload_trackers_by_mod =
                              Put(@, overload_tracker_key(d.ns), named.tracker)],
                  kind |-> FnKindMethod(type_ident, method_kind),
                  error_context |-> ErrorContextMethod(type_ident, rust_name),
                  rust_name |-> rust_name,
                  params |-> IF is_ctor THEN skip(analysed.params, 1)
                             ELSE analysed.params,
                  param_details |-> IF is_ctor THEN skip(analysed.param_details, 1)
                                    ELSE analysed.param_details]
        ELSE LET named == get_function_real_name(tracker, ideal)
             IN  [panic |-> FALSE,
                  me |-> [me1 EXCEPT !.overload_trackers_by_mod =
                              Put(@, overload_tracker_key(d.ns), named.tracker)],
                  kind |-> FnKindFunction,
                  error_context |-> ErrorContextItem(named.name),
                  rust_name |-> named.name,
                  params |-> analysed.params,
                  param_details |-> analysed.param_details]

\* The checks between naming and return analysis; NoError when all pass.
reject_unsupported(d, kind, bads) ==
    IF bads # <<>> THEN bads[1]
    ELSE IF has_attr(d.attrs, "bindgen_unused_template_param_in_arg_or_return")
    THEN ConvertError("UnusedTemplateParam", <<>>, <<>>)
    ELSE IF is_move_constructor(d)
    THEN ConvertError("MoveConstructorUnsupported", <<>>, <<>>)
    ELSE IF /\ kind.fn = "Method"
            /\ kind.method_kind # "Static"
            /\ ~ is_cxx_acceptable_receiver(kind.self_ty)
    THEN ConvertError("UnsupportedReceiver", <<>>, <<>>)
    ELSE NoError

\* From the return analysis to the result.
build_foreign_fn(me3, cfg, d, r, bridge_name, cpp_name, return_analysis) ==
    LET kind == r.kind
        rust_name == r.rust_name
        param_details == r.param_details
        me4 == [me3 EXCEPT !.extra_apis = @ \o return_analysis.extra_apis]
        num_input_references ==
            Cardinality({i \in 1..Len(param_details) : param_details[i].was_reference})
        ret_type_conversion == return_analysis.conversion
        param_conversion_needed ==
            \E i \in 1..Len(param_details) : cpp_work_needed(param_details[i].conversion)
        ret_type_conversion_needed ==
            ret_type_conversion # None /\ cpp_work_needed(ret_type_conversion[1])
        effective_cpp_name == IF cpp_name = None THEN rust_name ELSE cpp_name[1]
        cpp_name_incompatible_with_cxx == ~ validate_ident_ok_for_rust(effective_cpp_name)
        needed == wrapper_function_needed(kind, bridge_name, rust_name,
                                          param_conversion_needed,
                                          ret_type_conversion_needed,
                                          cpp_name_incompatible_with_cxx)
        cxxbridge_name == IF needed THEN wrapper_name(bridge_name) ELSE bridge_name
        payload == wrapper_payload(kind, d.ns, effective_cpp_name)
        ret_type == IF needed /\ ret_type_conversion # None
                    THEN Some(unconverted_rust_type(ret_type_conversion[1]))
                    ELSE return_analysis.rt
        params == IF needed THEN wrapper_params(kind, param_details) ELSE r.params
        cpp_wrapper ==
            IF needed
            THEN Some([payload |-> payload.payload,
                       wrapper_function_name |-> cxxbridge_name,
                       return_conversion |-> ret_type_conversion,
                       argument_conversion |->
                           [i \in 1..Len(param_details) |-> param_details[i].conversion],
                       is_a_method |-> payload.has_receiver])
            ELSE None
        claimed == ok_to_use_rust_name(me4.rust_name_tracker, rust_name)
        me5 == IF kind.fn = "Method" THEN me4
               ELSE [me4 EXCEPT !.rust_name_tracker = claimed.tracker]
        naming == final_naming(kind, cxxbridge_name, rust_name, claimed.ok)
        requires_unsafe ==
            \/ should_be_unsafe(cfg)
            \/ \E i \in 1..Len(param_details) : param_details[i].requires_unsafe
    IN  IF ~ return_analysis.ok
        THEN [me |-> me3,
              ret |-> RetErr(ConvertError(return_analysis.err, <<>>, <<>>),
                             r.error_context)]
        ELSE IF ambiguous_reference_return(return_analysis.was_reference,
                                           num_input_references)
        THEN [me |-> me4,
              ret |-> RetErr(ConvertError("NotOneInputReference", <<>>, rust_name),
                             r.error_context)]
        ELSE IF ~ validate_ident_ok_for_cxx(cxxbridge_name)
        THEN [me |-> me4,
              ret |-> RetErr(ConvertError("InvalidIdent", <<>>, cxxbridge_name),
                             r.error_context)]
        ELSE [me |-> me5,
              ret |-> RetOk([cxxbridge_name |-> cxxbridge_name,
                             rust_name |-> rust_name,
                             rust_rename_strategy |-> naming.strategy,
                             params |-> params,
                             kind |-> kind,
                             ret_type |-> ret_type,
                             param_details |-> param_details,
                             requires_unsafe |-> requires_unsafe,
                             cpp_wrapper |-> cpp_wrapper,
                             deps |-> UNION {param_details[i].deps :
                                                 i \in 1..Len(param_details)}
                                          \cup return_analysis.deps],
                            cpp_name, naming.id)]

\* The return type, analysed as the parameters were; a constructor returns
\* the type it constructs.
finish_foreign_fn(me3, cfg, pod_safe_types, d, r, bridge_name, cpp_name) ==
    build_foreign_fn(
        me3, cfg, d, r, bridge_name, cpp_name,
        IF r.kind.fn = "Method" /\ r.kind.method_kind = "Constructor"
        THEN constructor_return_analysis(r.kind.self_ty)
        ELSE convert_return_type(pod_safe_types, d.output, d.ns,
                                 get_reference_parameters_and_return(d).ref_return))

\* gate_foreign_fn, a rejected declaration giving back its cxx::bridge name
gate_foreign_fn_rolling_back(cfg, pod_safe_types, d, bads, r, bridge) ==
    LET me3 == [r.me EXCEPT !.bridge_name_tracker = bridge.tracker]
        cpp_name == IF bridge.name # r.rust_name /\ d.cpp_name = None
                    THEN Some(r.rust_name) ELSE d.cpp_name
        problem == reject_unsupported(d, r.kind, bads)
    IN  IF problem # NoError
        THEN [me |-> r.me, ret |-> RetErr(problem, r.error_context)]
        ELSE finish_foreign_fn(me3, cfg, pod_safe_types, d, r, bridge.name, cpp_name)

\* With the cxx::bridge name in hand: the error cases that need the error
\* context, then the rest.
gate_foreign_fn(cfg, pod_safe_types, d, bads, r, bridge) ==
    LET me3 == [r.me EXCEPT !.bridge_name_tracker = bridge.tracker]
        cpp_name == IF bridge.name # r.rust_name /\ d.cpp_name = None
                    THEN Some(r.rust_name) ELSE d.cpp_name
        problem == reject_unsupported(d, r.kind, bads)
    IN  IF problem # NoError
        THEN [me |-> me3, ret |-> RetErr(problem, r.error_context)]
        ELSE finish_foreign_fn(me3, cfg, pod_safe_types, d, r, bridge.name, cpp_name)

\* With the kind and the Rust name in hand: the name within the cxx::bridge.
name_foreign_fn(cfg, pod_safe_types, d, bads, r) ==
    IF r.panic
    THEN [me |-> r.me, ret |-> RetPanic]
    ELSE gate_foreign_fn(
             cfg, pod_safe_types, d, bads, r,
             get_unique_cxx_bridge_name(
                 r.me.bridge_name_tracker,
                 IF r.kind.fn = "Method" THEN Some(r.kind.self_ty) ELSE None,
                 r.rust_name, d.ns))

\* classify_foreign_fn, the overload tracker asked before the allowlist
classify_foreign_fn_naming_before_allowlist(me0, cfg, pod_safe_types, d, analysed) ==
    LET me1 == [me0 EXCEPT !.extra_apis = @ \o analysed.extra_apis]
        found_self_ty == first_self_type(analysed.param_details)
        is_static_method == found_self_ty = None /\ d.self_ty # None
        self_ty == IF found_self_ty = None THEN d.self_ty ELSE found_self_ty
    IN  IF self_ty # None /\ ~ is_on_allowlist(cfg, self_ty[1])
        THEN [me |-> resolve_kind(me1, d, ideal_rust_name(d.cpp_name, d.ident), analysed,
                                  self_ty, is_static_method).me,
              ret |-> RetNone]
        ELSE name_foreign_fn(
                 cfg, pod_safe_types, d, analysed.bads,
                 resolve_kind(me1, d, ideal_rust_name(d.cpp_name, d.ident), analysed,
                              self_ty, is_static_method))

\* With the parameters analysed: is it a method, and of a type on the
\* allowlist?
classify_foreign_fn(me0, cfg, pod_safe_types, d, analysed) ==
    LET me1 == [me0 EXCEPT !.extra_apis = @ \o analysed.extra_apis]
        found_self_ty == first_self_type(analysed.param_details)
        is_static_method == found_self_ty = None /\ d.self_ty # None
        self_ty == IF found_self_ty = None THEN d.self_ty ELSE found_self_ty
    IN  IF self_ty # None /\ ~ is_on_allowlist(cfg, self_ty[1])
        THEN [me |-> me1, ret |-> RetNone]
        ELSE name_foreign_fn(
                 cfg, pod_safe_types, d, analysed.bads,
                 resolve_kind(me1, d, ideal_rust_name(d.cpp_name, d.ident), analysed,
                              self_ty, is_static_method))

\* analyze_foreign_fn, the destructors dropped once the parameters are
\* analysed
analyze_foreign_fn_destructor_after_params(me0, cfg, pod_safe_types, d) ==
    IF ends_with(d.ident, <<"_", "destructor">>)
    THEN [me |-> [me0 EXCEPT !.extra_apis =
                      @ \o analyze_params(cfg, pod_safe_types, d).extra_apis],
          ret |-> RetNone]
    ELSE classify_foreign_fn(me0, cfg, pod_safe_types, d,
                             analyze_params(cfg, pod_safe_types, d))

analyze_foreign_fn(me0, cfg, pod_safe_types, d) ==
    IF ends_with(d.ident, <<"_", "destructor">>)
    THEN [me |-> me0, ret |-> RetNone]
    ELSE classify_foreign_fn(me0, cfg, pod_safe_types, d,
                             analyze_params(cfg, pod_safe_types, d))

(***************************************************************************)
(* The declarations of a run.                                              *)
(***************************************************************************)
Root == <<>>
NsN == <<"n">>

NoAttrs ==
    [bindgen_pure_virtual |-> FALSE,
     bindgen_unused_template_param_in_arg_or_return |-> FALSE,
     bindgen_special_member |-> None,
     bindgen_arg_type_reference |-> {},
     bindgen_ret_type_reference |-> FALSE]

Arg(pat, ty) == [pat |-> pat, ty |-> ty]
This(ty) == Arg(<<"this">>, ty)

Decl(ns, ident, cpp_name, self_ty, virtual_this, inputs, output, attrs) ==
    [ns |-> ns, ident |-> ident, cpp_name |-> cpp_name, self_ty |-> self_ty,
     virtual_this_type |-> virtual_this, inputs |-> inputs, output |-> output,
     attrs |-> attrs]

Fn(ns, ident, cpp_name, inputs, output, attrs) ==
    Decl(ns, ident, cpp_name, None, None, inputs, output, attrs)

\* bindgen names a method {class}_{method}, with the C++ name beside it
Method(ns, class, method, offset, inputs, output, attrs) ==
    Decl(ns, <<class, "_">> \o with_offset(method, offset), Some(method), None, None,
         inputs, output, attrs)

IntA == Arg(<<"a">>, Path("int"))
IntB == Arg(<<"b">>, Path("int"))
RetRef == [NoAttrs EXCEPT !.bindgen_ret_type_reference = TRUE]

FreeFunctions ==
    { \* f(a: int, b: int) -> int, in two namespaces
      Fn(Root, <<"f">>, None, <<IntA, IntB>>, Some(Path("int")), NoAttrs),
      Fn(NsN, <<"f">>, None, <<IntA, IntB>>, Some(Path("int")), NoAttrs),
      \* overloads of f: by-value struct, POD or not
      Fn(Root, <<"f", "1">>, Some(<<"f">>), <<Arg(<<"a">>, Path("S"))>>, None, NoAttrs),
      Fn(Root, <<"f", "2">>, Some(<<"f">>), <<Arg(<<"a">>, Path("P"))>>,
         Some(Path("P")), NoAttrs),
      \* f_(a: S)
      Fn(Root, <<"f", "_">>, None, <<Arg(<<"a">>, Path("S"))>>, None, NoAttrs),
      \* move(), which bindgen calls move_
      Fn(Root, <<"move", "_">>, Some(<<"move">>), <<>>, None, NoAttrs),
      \* g returning S&, with no, one and two reference parameters
      Fn(Root, <<"g">>, None, <<>>, Some(Ptr("S")), RetRef),
      Fn(Root, <<"g", "1">>, Some(<<"g">>), <<Arg(<<"a">>, Ptr("S"))>>, Some(Ptr("S")),
         [RetRef EXCEPT !.bindgen_arg_type_reference = {<<"a">>}]),
      Fn(Root, <<"g", "2">>, Some(<<"g">>),
         <<Arg(<<"a">>, Ptr("S")), Arg(<<"b">>, Ptr("S"))>>, Some(Ptr("S")),
         [RetRef EXCEPT !.bindgen_arg_type_reference = {<<"a">>, <<"b">>}]),
      \* h(a: string) -> S
      Fn(Root, <<"h">>, None, <<Arg(<<"a">>, Path("string"))>>, Some(Path("S")), NoAttrs),
      \* k(__a: int) -> int
      Fn(Root, <<"k">>, None, <<Arg(<<"_", "_", "a">>, Path("int"))>>, Some(Path("int")),
         NoAttrs),
      \* k_destructor(a: int)
      Fn(Root, <<"k", "_", "destructor">>, None, <<IntA>>, None, NoAttrs) }

Methods ==
    { \* W::m(int), in two namespaces, and its overload W::m(S)
      Method(Root, "W", <<"m">>, 0, <<This(Ptr("W")), IntA>>, None, NoAttrs),
      Method(NsN, "W", <<"m">>, 0, <<This(Ptr("W")), IntA>>, None, NoAttrs),
      Method(Root, "W", <<"m">>, 1, <<This(Ptr("W")), Arg(<<"a">>, Path("S"))>>, None,
             NoAttrs),
      \* W::W(), W::W(int) and the move constructor W::W(W&&)
      Method(Root, "W", <<"W">>, 0, <<This(Ptr("W"))>>, None, NoAttrs),
      Method(Root, "W", <<"W">>, 1, <<This(Ptr("W")), IntA>>, None, NoAttrs),
      Method(Root, "W", <<"W">>, 2, <<This(Ptr("W")), Arg(<<"a">>, Ptr("W"))>>, None,
             [NoAttrs EXCEPT !.bindgen_special_member = Some("move_ctor"),
                             !.bindgen_arg_type_reference = {<<"a">>}]),
      \* the move constructor V::V(V&&), V not on the allowlist
      Method(Root, "V", <<"V">>, 0, <<This(Ptr("V")), Arg(<<"a">>, Ptr("V"))>>, None,
             [NoAttrs EXCEPT !.bindgen_special_member = Some("move_ctor"),
                             !.bindgen_arg_type_reference = {<<"a">>}]),
      \* ~W()
      Decl(Root, <<"W", "_", "W", "_", "destructor">>, None, None, None,
           <<This(Ptr("W"))>>, None, NoAttrs),
      \* static W::s(int)
      Decl(Root, <<"W", "_", "s">>, Some(<<"s">>), Some("W"), None, <<IntA>>, None,
           NoAttrs),
      \* virtual W::v() and pure virtual W::p()
      Decl(Root, <<"W", "_", "v">>, Some(<<"v">>), None, Some("W"),
           <<This(Ptr("c_void"))>>, None, NoAttrs),
      Decl(Root, <<"W", "_", "p">>, Some(<<"p">>), None, Some("W"),
           <<This(Ptr("c_void"))>>, None,
           [NoAttrs EXCEPT !.bindgen_pure_virtual = TRUE]),
      \* W::move()
      Method(Root, "W", <<"move">>, 0, <<This(Ptr("W"))>>, None, NoAttrs),
      \* V::m(), V not on the allowlist
      Method(Root, "V", <<"m">>, 0, <<This(Ptr("V"))>>, None, NoAttrs),
      \* S& W::Wg(S&): a method whose name starts with the name of its class
      Method(Root, "W", <<"W", "g">>, 0, <<This(Ptr("W")), Arg(<<"a">>, Ptr("S"))>>,
             Some(Ptr("S")), [RetRef EXCEPT !.bindgen_arg_type_reference = {<<"a">>}]),
      \* static W::Wh() and static W::Wh(int)
      Decl(Root, <<"W", "_", "W", "h">>, Some(<<"W", "h">>), Some("W"), None, <<>>,
           None, NoAttrs),
      Decl(Root, <<"W", "_", "W", "h", "1">>, Some(<<"W", "h">>), Some("W"), None,
           <<IntA>>, None, NoAttrs),
      \* S& W::r(), as bindgen names it when it gives no C++ name
      Decl(Root, <<"W", "_", "r">>, None, None, None, <<This(Ptr("W"))>>,
           Some(Ptr("S")), RetRef) }

Decls == FreeFunctions \cup Methods

\* every annotation at once
AllAttrs ==
    [NoAttrs EXCEPT !.bindgen_pure_virtual = TRUE,
                    !.bindgen_unused_template_param_in_arg_or_return = TRUE,
                    !.bindgen_special_member = Some("move_ctor")]

PureVirtualAttr == [NoAttrs EXCEPT !.bindgen_pure_virtual = TRUE]

BadA == Arg(<<"_", "_", "a">>, Path("int"))

\* Declarations that meet the drops and the rejections of analyze_foreign_fn,
\* several at a time, and the kinds of method.
GateDecls ==
    { \* W::new() as a function W_new, and the constructor W::W()
      Method(Root, "W", <<"new">>, 0, <<This(Ptr("W"))>>, None, NoAttrs),
      Method(Root, "W", <<"W">>, 0, <<This(Ptr("W"))>>, None, NoAttrs),
      \* V is not on the allowlist: a static method with a bad parameter and
      \* every annotation, the move constructor, and V::m(T)
      Decl(Root, <<"V", "_", "s">>, Some(<<"s">>), Some("V"), None, <<BadA>>,
           Some(Array("int")), AllAttrs),
      Method(Root, "V", <<"V">>, 0, <<This(Ptr("V")), Arg(<<"a">>, Ptr("V"))>>, None,
             [NoAttrs EXCEPT !.bindgen_special_member = Some("move_ctor"),
                             !.bindgen_arg_type_reference = {<<"a">>}]),
      Method(Root, "V", <<"m">>, 0, <<This(Ptr("V")), Arg(<<"a">>, Path("T"))>>, None,
             NoAttrs),
      \* ~W(), given a parameter of a template type, a bad parameter and
      \* every annotation
      Decl(Root, <<"W", "_", "W", "_", "destructor">>, None, None, None,
           <<This(Ptr("W")), Arg(<<"a">>, Path("T")), Arg(<<"b", "_", "_">>, Path("int"))>>, Some(Array("int")),
           AllAttrs),
      \* the kinds: static W::s(int), virtual W::v(), pure virtual W::p(),
      \* W::n() annotated pure virtual but not virtual
      Decl(Root, <<"W", "_", "s">>, Some(<<"s">>), Some("W"), None, <<IntA>>, None,
           PureVirtualAttr),
      Decl(Root, <<"W", "_", "v">>, Some(<<"v">>), None, Some("W"),
           <<This(Ptr("c_void"))>>, None, NoAttrs),
      Decl(Root, <<"W", "_", "p">>, Some(<<"p">>), None, Some("W"),
           <<This(Ptr("c_void"))>>, None, PureVirtualAttr),
      Method(Root, "W", <<"n">>, 0, <<This(Ptr("W"))>>, None, PureVirtualAttr),
      \* names that start with the name of the class: pure virtual W::Wv(int)
      \* and static W::Wh(int)
      Decl(Root, <<"W", "_", "W", "v">>, Some(<<"W", "v">>), None, Some("W"),
           <<This(Ptr("c_void")), IntA>>, None, PureVirtualAttr),
      Decl(Root, <<"W", "_", "W", "h">>, Some(<<"W", "h">>), Some("W"), None,
           <<IntA>>, None, NoAttrs),
      \* static W::Wh(int __a), its only parameter a bad one
      Decl(Root, <<"W", "_", "W", "h", "1">>, Some(<<"W", "h">>), Some("W"), None,
           <<BadA>>, None, NoAttrs),
      \* a function annotated pure virtual
      Fn(Root, <<"q">>, None, <<IntA>>, None, PureVirtualAttr),
      \* its overload q(int __a)
      Fn(Root, <<"q", "1">>, Some(<<"q">>), <<BadA>>, None, NoAttrs),
      \* methods of A, no receiver for cxx, with fewer and fewer troubles
      Method(Root, "A", <<"m">>, 0, <<This(Ptr("A")), BadA, Arg(<<"b", "_", "_">>, Path("int"))>>,
             Some(Array("int")), AllAttrs),
      Method(Root, "A", <<"m">>, 1, <<This(Ptr("A"))>>, Some(Array("int")), AllAttrs),
      Method(Root, "A", <<"m">>, 2, <<This(Ptr("A"))>>, Some(Array("int")),
             [NoAttrs EXCEPT !.bindgen_special_member = Some("move_ctor")]),
      Method(Root, "A", <<"m">>, 3, <<This(Ptr("A"))>>, Some(Array("int")), NoAttrs),
      \* functions whose name is no cxx identifier: t__x() returning an array,
      \* u__x() returning a reference, v__x()
      Fn(Root, <<"t", "_", "_", "x">>, None, <<>>, Some(Array("int")), NoAttrs),
      Fn(Root, <<"u", "_", "_", "x">>, None, <<>>, Some(Ptr("S")), RetRef),
      Fn(Root, <<"v", "_", "_", "x">>, None, <<>>, None, NoAttrs) }

Configs ==
    { [allowlist |-> {"W", "A"}, exclude_utilities |-> FALSE,
       unsafe_policy |-> "AllFunctionsSafe"] }

\* the types the classifiers are asked about: POD and not, string, by value
\* and behind every other shape
ClassifierTypes ==
    { [shape |-> sh, name |-> n] :
        sh \in {"Path", "Ptr", "Reference", "UniquePtr", "Array"},
        n \in {"int", "P", "S", "string"} }

(***************************************************************************)
(* The run: analyze_functions makes the analyzer and hands it every        *)
(* declaration in turn.                                                    *)
(***************************************************************************)
NewFnAnalyzer ==
    [rust_name_tracker |-> NewRustNameTracker,
     extra_apis |-> <<>>,
     bridge_name_tracker |-> NewBridgeNameTracker,
     overload_trackers_by_mod |-> EmptyMap]

Init ==
    /\ config \in Configs
    /\ me = NewFnAnalyzer
    /\ me_before = NewFnAnalyzer
    /\ apis = <<>>
    /\ outcomes = <<>>
    /\ panicked = FALSE
    /\ classified = <<>>

\* what one call of analyze_foreign_fn leaves behind
Analyzed(d, done) ==
    /\ me' = done.me
    /\ me_before' = me
    /\ outcomes' = Append(outcomes, done.ret)
    /\ panicked' = (done.ret.tag = "Panic")
    /\ apis' = Append(apis, d)
    /\ UNCHANGED <<config, classified>>

AnalyzeForeignFn(d) ==
    /\ ~ panicked
    /\ Len(apis) < MaxDecls
    /\ Analyzed(d, analyze_foreign_fn(me, config, build_pod_safe_type_set, d))

Next == \E d \in Decls : AnalyzeForeignFn(d)

Spec == Init /\ [][Next]_vars

\* the same run over the declarations of GateDecls
NextGates == \E d \in GateDecls : AnalyzeForeignFn(d)

SpecGates == Init /\ [][NextGates]_vars

(***************************************************************************)
(* The two classifiers on their own: argument_conversion_details and       *)
(* return_type_conversion_details, asked about one type after another.     *)
(***************************************************************************)
InitClassifier ==
    /\ config \in { [allowlist |-> {"W", "A"}, exclude_utilities |-> e,
                     unsafe_policy |-> "AllFunctionsSafe"] : e \in BOOLEAN }
    /\ me = NewFnAnalyzer
    /\ me_before = NewFnAnalyzer
    /\ apis = <<>>
    /\ outcomes = <<>>
    /\ panicked = FALSE
    /\ classified = <<>>

Classified(direction, ty, policy) ==
    /\ Len(classified) < MaxClassified
    /\ classified' = Append(classified,
                            [direction |-> direction, ty |-> ty, policy |-> policy])
    /\ UNCHANGED <<config, me, me_before, apis, outcomes, panicked>>

ClassifyArgument(ty) ==
    Classified("Argument", ty,
               argument_conversion_details(config, build_pod_safe_type_set, ty))

ClassifyReturn(ty) ==
    Classified("Return", ty, return_type_conversion_details(build_pod_safe_type_set, ty))

NextClassifier ==
    \/ \E ty \in ClassifierTypes : ClassifyArgument(ty)
    \/ \E ty \in ClassifierTypes : ClassifyReturn(ty)

SpecClassifier == InitClassifier /\ [][NextClassifier]_vars

(***************************************************************************)
(* Properties.                                                             *)
(***************************************************************************)
Idx == 1..Len(outcomes)
Ok(i) == outcomes[i].tag = "Ok"
An(i) == outcomes[i].analysis
IsFunction(i) == Ok(i) /\ An(i).kind.fn = "Function"
IsMethod(i) == Ok(i) /\ An(i).kind.fn = "Method"
HasWrapper(i) == An(i).cpp_wrapper # None

(***************************************************************************)
(* A declaration, as the analysis is going to see it whatever came before  *)
(* it in the run: the registries only choose the numeric suffix of a name. *)
(***************************************************************************)
\* the parameters of every declaration, analysed, tabulated once
AnalysedParams ==
    [cfg \in Configs |->
        [d \in Decls \cup GateDecls |-> analyze_params(cfg, build_pod_safe_type_set, d)] @@ <<>>]
    @@ <<>>

DeclParams(d) == AnalysedParams[config][d]

DeclSelfTy(d) ==
    LET found == first_self_type(DeclParams(d).param_details)
    IN  IF found = None THEN d.self_ty ELSE found

DeclIsStatic(d) ==
    first_self_type(DeclParams(d).param_details) = None /\ d.self_ty # None

\* the name the overload tracker counts
DeclIdeal(d) ==
    IF DeclSelfTy(d) = None THEN ideal_rust_name(d.cpp_name, d.ident)
    ELSE strip_type_prefix(DeclSelfTy(d)[1], ideal_rust_name(d.cpp_name, d.ident))

DeclKind(d) ==
    IF DeclSelfTy(d) = None THEN FnKindFunction
    ELSE FnKindMethod(DeclSelfTy(d)[1],
                      method_kind_of(DeclIdeal(d), DeclSelfTy(d)[1], DeclIsStatic(d),
                                     DeclParams(d).param_details, d.attrs))

DeclIsConstructor(d) == DeclKind(d).method_kind = "Constructor"

\* Ok(None): a destructor, or a method of a type off the allowlist
Dropped(d) ==
    \/ ends_with(d.ident, <<"_", "destructor">>)
    \/ DeclSelfTy(d) # None /\ ~ is_on_allowlist(config, DeclSelfTy(d)[1])

\* rejected before the return type is looked at
RejectedEarly(d) == reject_unsupported(d, DeclKind(d), DeclParams(d).bads) # NoError

\* the return type as declared, analysed
DeclReturn(d) ==
    convert_return_type(build_pod_safe_type_set, d.output, d.ns,
                        get_reference_parameters_and_return(d).ref_return)

\* the declared return type is a reference
DeclReturnsReference(d) == DeclReturn(d).was_reference

\* its first parameter is the receiver
DeclHasReceiver(d) ==
    /\ DeclParams(d).param_details # <<>>
    /\ DeclParams(d).param_details[1].self_type # None

\* how many declarations before the i-th the overload tracker has counted
\* under the same namespace, owning type and name
SeenBefore(i) ==
    Cardinality({j \in 1..(i - 1) :
                    /\ ~ Dropped(apis[j])
                    /\ apis[j].ns = apis[i].ns
                    /\ DeclSelfTy(apis[j]) = DeclSelfTy(apis[i])
                    /\ DeclIdeal(apis[j]) = DeclIdeal(apis[i])})

NumReferences(param_details) ==
    Cardinality({k \in 1..Len(param_details) : param_details[k].was_reference})

\* C1: the cxxbridge_name of the successful results of a run, wrapper suffix
\* included, are pairwise distinct.
C1_BridgeNamesDistinct ==
    \A i, j \in Idx :
        (i < j /\ Ok(i) /\ Ok(j)) => An(i).cxxbridge_name # An(j).cxxbridge_name

\* C2 as stated: the rust_name of the successful results of a run, functions
\* and methods of every namespace and type together, are pairwise distinct.
C2_RustNamesDistinct ==
    \A i, j \in Idx :
        (i < j /\ Ok(i) /\ Ok(j)) => An(i).rust_name # An(j).rust_name

ReachedByRustName(i) ==
    IsFunction(i) /\ An(i).rust_rename_strategy.strategy # "RenameInOutputMod"

\* C2, amended: the free functions that are reached under their rust_name
\* (strategy None or RenameUsingRustAttr) have pairwise distinct rust_names,
\* whatever their namespaces; a function whose rust_name is taken is
\* renamed in the output mod instead.
C2_FunctionRustNamesDistinct ==
    \A i, j \in Idx :
        (i < j /\ ReachedByRustName(i) /\ ReachedByRustName(j))
            => An(i).rust_name # An(j).rust_name

\* C2's case: two free functions with one rust_name, the second renamed in
\* the output mod.
C2_Witness ==
    \E i, j \in Idx :
        /\ i < j
        /\ ReachedByRustName(i)
        /\ IsFunction(j)
        /\ An(j).rust_name = An(i).rust_name
        /\ An(j).rust_rename_strategy = RenameInOutputMod(An(i).rust_name)
        /\ apis[i].ns # apis[j].ns

\* the result returns a reference
ReturnsReference(i) == An(i).ret_type # None /\ An(i).ret_type[1].shape = "Reference"

\* rejected with NotOneInputReference, which names the function
RejectedAmbiguous(i) ==
    /\ outcomes[i].tag = "Err"
    /\ outcomes[i].err.kind = "NotOneInputReference"
    /\ outcomes[i].err.name = outcomes[i].ctx.name
    /\ starts_with(outcomes[i].err.name,
                   IF DeclIsConstructor(apis[i]) THEN <<"make_unique">>
                   ELSE DeclIdeal(apis[i]))

\* C3 as stated: a declaration whose return type is a reference gives a
\* result only if exactly one of its analysed parameters, the receiver
\* included, is a reference, and with any other count it is rejected with
\* NotOneInputReference naming the function; every result that returns a
\* reference has exactly one reference parameter.
C3_ReferenceReturnNeedsOneReference ==
    /\ \A i \in Idx :
           DeclReturnsReference(apis[i]) =>
               /\ Ok(i) => NumReferences(DeclParams(apis[i]).param_details) = 1
               /\ NumReferences(DeclParams(apis[i]).param_details) # 1
                      => RejectedAmbiguous(i)
    /\ \A i \in Idx :
           (Ok(i) /\ ReturnsReference(i)) => NumReferences(An(i).param_details) = 1

\* C3, amended: the same of a declaration that gets as far as the check: one
\* that is not dropped, not rejected by an earlier check (parameter error,
\* unused template parameter, move constructor, unsupported receiver) and
\* not classified Constructor.  With one reference parameter it is not
\* rejected for its references, and its result returns a reference.
C3_ReferenceReturnChecked ==
    /\ \A i \in Idx :
           ( /\ DeclReturnsReference(apis[i])
             /\ ~ Dropped(apis[i])
             /\ ~ RejectedEarly(apis[i])
             /\ ~ DeclIsConstructor(apis[i]) ) =>
               /\ Ok(i) => /\ NumReferences(DeclParams(apis[i]).param_details) = 1
                           /\ ReturnsReference(i)
               /\ NumReferences(DeclParams(apis[i]).param_details) # 1
                      <=> RejectedAmbiguous(i)
               /\ outcomes[i].tag = "Err"
                      => outcomes[i].err.kind \in {"NotOneInputReference", "InvalidIdent"}
    /\ \A i \in Idx :
           (Ok(i) /\ ReturnsReference(i)) => NumReferences(An(i).param_details) = 1

\* C3's case: a run with a result that returns a reference, a declaration
\* rejected for having no reference parameter and one rejected for having
\* two.
C3_Witness ==
    \E i, j, k \in Idx :
        /\ Ok(i) /\ ReturnsReference(i) /\ NumReferences(An(i).param_details) = 1
        /\ RejectedAmbiguous(j)
        /\ NumReferences(DeclParams(apis[j]).param_details) = 0
        /\ RejectedAmbiguous(k)
        /\ NumReferences(DeclParams(apis[k]).param_details) = 2

\* the name of the i-th declaration as a constructor: make_unique, then what
\* follows the type name in the name the overload tracker gave out
ConstructorName(i) ==
    <<"make_unique">> \o skip(with_offset(DeclIdeal(apis[i]), SeenBefore(i)), 1)

\* the result is the constructor of ty made from the i-th declaration
IsConstructorOf(i, ty) ==
    /\ An(i).kind = FnKindMethod(ty, "Constructor")
    /\ An(i).rust_name = ConstructorName(i)
    /\ An(i).ret_type = Some(UniquePtr(ty))

\* the receiver is gone from the parameters and from their analyses
ReceiverRemoved(i) ==
    /\ An(i).param_details = Tail(DeclParams(apis[i]).param_details)
    /\ \A k \in 1..Len(An(i).param_details) : An(i).param_details[k].self_type = None
    /\ Len(An(i).params) = Len(DeclParams(apis[i]).params) - 1
    /\ \A k \in 1..Len(An(i).params) :
           /\ An(i).params[k].pat = DeclParams(apis[i]).params[k + 1].pat
           /\ An(i).params[k].pat \notin {<<"self">>, <<"autocxx_gen_this">>}

IsMethodOfKind(i, method_kinds) ==
    IsMethod(i) /\ An(i).kind.method_kind \in method_kinds

\* the wrapper of a result: its name is the name of the cxx::bridge entry
WrapperPresent(i) ==
    /\ HasWrapper(i)
    /\ An(i).cpp_wrapper[1].wrapper_function_name = An(i).cxxbridge_name
    /\ ends_with(An(i).cxxbridge_name, <<"autocxx_wrapper">>)

\* the name the bridge name tracker gave is the Rust name
NamesMatch(i) ==
    IF HasWrapper(i) THEN An(i).cxxbridge_name = wrapper_name(An(i).rust_name)
    ELSE An(i).cxxbridge_name = An(i).rust_name

\* neither a parameter nor the return type needs C++ work
NoConversionNeeded(i) ==
    /\ \A k \in 1..Len(An(i).param_details) :
           ~ cpp_work_needed(An(i).param_details[k].conversion)
    /\ \/ DeclReturn(apis[i]).conversion = None
       \/ ~ cpp_work_needed(DeclReturn(apis[i]).conversion[1])

\* the C++ name the wrapper would call is no Rust keyword
CppNameOk(i) ==
    validate_ident_ok_for_rust(IF outcomes[i].cpp_name = None THEN An(i).rust_name
                               ELSE outcomes[i].cpp_name[1])

\* C5: every result whose kind is a Static, Virtual or PureVirtual method
\* has a cpp_wrapper, whatever its names and conversions.
C5_StaticAndVirtualWrapped ==
    \A i \in Idx :
        IsMethodOfKind(i, {"Static", "Virtual", "PureVirtual"}) => WrapperPresent(i)

\* C5's case: a static, a virtual and a pure virtual method in one run, all
\* wrapped, and one of them with matching names, nothing to convert and a
\* C++ name that is no keyword.
C5_Witness ==
    /\ \A mk \in {"Static", "Virtual", "PureVirtual"} :
           \E i \in Idx : IsMethodOfKind(i, {mk}) /\ WrapperPresent(i)
    /\ \E i \in Idx :
           /\ IsMethodOfKind(i, {"Virtual", "PureVirtual"})
           /\ NamesMatch(i) /\ NoConversionNeeded(i) /\ CppNameOk(i)

\* C6 as stated: a result whose kind is a Normal method, with nothing to
\* convert and the cxx::bridge name the tracker gave equal to the Rust name,
\* has no cpp_wrapper, a method with a keyword for C++ name included.
C6_NormalMethodMatchingNamesUnwrapped ==
    \A i \in Idx :
        (IsMethodOfKind(i, {"Normal"}) /\ NoConversionNeeded(i) /\ NamesMatch(i))
            => ~ HasWrapper(i)

\* C6, amended: such a result has no cpp_wrapper if moreover its C++ name
\* (the override, or the Rust name without one) is no Rust keyword; if it is
\* one, the result has a cpp_wrapper.
C6_NormalMethodUnwrappedUnlessKeyword ==
    \A i \in Idx :
        (IsMethodOfKind(i, {"Normal"}) /\ NoConversionNeeded(i) /\ NamesMatch(i))
            => IF CppNameOk(i)
               THEN ~ HasWrapper(i) /\ An(i).cxxbridge_name = An(i).rust_name
               ELSE WrapperPresent(i)

\* C6's case: a Normal method without a wrapper, and one named by a keyword
\* with a wrapper, both with matching names and nothing to convert.
C6_Witness ==
    \E i, j \in Idx :
        /\ IsMethodOfKind(i, {"Normal"}) /\ NoConversionNeeded(i) /\ NamesMatch(i)
        /\ CppNameOk(i) /\ ~ HasWrapper(i)
        /\ IsMethodOfKind(j, {"Normal"}) /\ NoConversionNeeded(j) /\ NamesMatch(j)
        /\ ~ CppNameOk(j) /\ HasWrapper(j)
        /\ outcomes[j].cpp_name = Some(<<"move">>)

\* the Rust name the i-th declaration was given: that of its result, or the
\* one its error is reported for
AssignedRustName(i) ==
    IF Ok(i) THEN An(i).rust_name ELSE outcomes[i].ctx.name

\* a declaration that is no method and that the overload tracker gets to see
IsCountedFunction(i) ==
    DeclSelfTy(apis[i]) = None /\ ~ Dropped(apis[i])

\* C7: the declarations that are not methods and share an ideal name in one
\* namespace are named, in the order they are seen, by the ideal name, the
\* ideal name with suffix 1, with suffix 2 and so on; the same ideal name in
\* another namespace is counted on its own.
C7_OverloadSuffixes ==
    \A i \in Idx :
        IsCountedFunction(i) =>
            /\ outcomes[i].tag \in {"Ok", "Err"}
            /\ AssignedRustName(i) = with_offset(DeclIdeal(apis[i]), SeenBefore(i))

\* C7's case: three functions of one namespace with one ideal name, named
\* foo, foo1 and foo2 in the order they were seen.
C7_Witness ==
    \E i, j, k \in Idx :
        /\ i < j /\ j < k
        /\ IsCountedFunction(i) /\ IsCountedFunction(j) /\ IsCountedFunction(k)
        /\ apis[i].ns = apis[j].ns /\ apis[j].ns = apis[k].ns
        /\ DeclIdeal(apis[i]) = DeclIdeal(apis[j])
        /\ DeclIdeal(apis[j]) = DeclIdeal(apis[k])
        /\ AssignedRustName(i) = DeclIdeal(apis[i])
        /\ AssignedRustName(j) = DeclIdeal(apis[i]) \o <<"1">>
        /\ AssignedRustName(k) = DeclIdeal(apis[i]) \o <<"2">>

(***************************************************************************)
(* Whole runs, for comparison.                                             *)
(***************************************************************************)
\* the outcomes of analyze_functions on a list of declarations
RECURSIVE RunOutcomes(_, _)
RunOutcomes(me0, decls) ==
    IF decls = <<>> THEN <<>>
    ELSE LET done == analyze_foreign_fn(me0, config, build_pod_safe_type_set,
                                        Head(decls))
         IN  IF done.ret.tag = "Panic" THEN <<done.ret>>
             ELSE <<done.ret>> \o RunOutcomes(done.me, Tail(decls))

\* the run without its k-th declaration
Without(k) == SubSeq(apis, 1, k - 1) \o SubSeq(apis, k + 1, Len(apis))

\* the run with its k-th declaration not annotated as a special member
Unannotated(k) ==
    [apis EXCEPT ![k] = [@ EXCEPT !.attrs.bindgen_special_member = None]]

AnnotatedMoveConstructor(k) ==
    apis[k].attrs.bindgen_special_member = Some("move_ctor")

\* rejected, and the run not unwound by it
RejectedAsMoveConstructor(k) ==
    /\ outcomes[k].tag = "Err"
    /\ outcomes[k].err = ConvertError("MoveConstructorUnsupported", <<>>, <<>>)
    /\ k = Len(apis) => ~ panicked

\* C9 as stated: a declaration annotated as a move constructor, with no
\* parameter error and no unused-template annotation, is rejected with
\* MoveConstructorUnsupported, the run goes on, and every other declaration
\* has the outcome and the names of the run without that declaration.
C9_MoveConstructorLeavesOthersIntact ==
    \A k \in Idx :
        ( /\ AnnotatedMoveConstructor(k)
          /\ DeclParams(apis[k]).bads = <<>>
          /\ ~ has_attr(apis[k].attrs, "bindgen_unused_template_param_in_arg_or_return") )
        => /\ RejectedAsMoveConstructor(k)
           /\ LET other == RunOutcomes(NewFnAnalyzer, Without(k))
              IN  /\ Len(other) = Len(outcomes) - 1
                  /\ \A i \in 1..Len(other) :
                         other[i] = outcomes[IF i < k THEN i ELSE i + 1]

\* C9, amended: such a declaration, unless it is dropped, is rejected with
\* MoveConstructorUnsupported and the run goes on; every other declaration
\* has the outcome and the names of the run in which that declaration is
\* not annotated: the rejected declaration has taken its overload suffix
\* and its cxx::bridge name.
C9_MoveConstructorRejectedKeepsNames ==
    \A k \in Idx :
        ( /\ AnnotatedMoveConstructor(k)
          /\ DeclParams(apis[k]).bads = <<>>
          /\ ~ has_attr(apis[k].attrs, "bindgen_unused_template_param_in_arg_or_return") )
        => /\ IF Dropped(apis[k]) THEN outcomes[k].tag = "None"
              ELSE RejectedAsMoveConstructor(k)
           /\ LET other == RunOutcomes(NewFnAnalyzer, Unannotated(k))
              IN  /\ Len(other) = Len(outcomes)
                  /\ \A i \in Idx \ {k} : other[i] = outcomes[i]

\* C9's case: a move constructor rejected, and after it a constructor of
\* the same type, which is make_unique1 and would be make_unique in the run
\* without the move constructor.
C9_Witness ==
    \E k, i \in Idx :
        /\ k < i
        /\ AnnotatedMoveConstructor(k) /\ RejectedAsMoveConstructor(k)
        /\ Ok(i) /\ IsMethodOfKind(i, {"Constructor"})
        /\ An(i).rust_name = <<"make_unique", "1">>
        /\ RunOutcomes(NewFnAnalyzer, Without(k))[i - 1].analysis.rust_name
               = <<"make_unique">>

\* the declaration just analysed; me_before holds the registries it found
LastDecl == apis[Len(apis)]

IsPodSafe(ty) == ty.shape = "Path" /\ ty.name \in build_pod_safe_type_set

\* a free function with no C++ name beside its own, a valid identifier for
\* name, and POD-safe parameter and return types
IsPlainFunction(d) ==
    /\ d.self_ty = None
    /\ \A k \in 1..Len(d.inputs) : d.inputs[k].pat # <<"this">>
    /\ d.cpp_name = None
    /\ validate_ident_ok_for_rust(d.ident) /\ validate_ident_ok_for_cxx(d.ident)
    /\ \A k \in 1..Len(d.inputs) : IsPodSafe(d.inputs[k].ty)
    /\ d.output = None \/ IsPodSafe(d.output[1])

\* no registry has seen the name of the declaration
NameUnused(d) ==
    /\ d.ident \notin me_before.bridge_name_tracker.used
    /\ d.ident \notin me_before.rust_name_tracker.names_found
    /\ Get(overload_tracker_entry(me_before.overload_trackers_by_mod, d.ns).offset_by_name,
           d.ident) = 0

\* a result with no wrapper, named as the declaration is, reached as it is
PlainResult(i) ==
    /\ Ok(i)
    /\ ~ HasWrapper(i)
    /\ An(i).cxxbridge_name = apis[i].ident
    /\ An(i).rust_name = apis[i].ident
    /\ An(i).rust_rename_strategy = RenameNone
    /\ outcomes[i].id = apis[i].ident
    /\ outcomes[i].cpp_name = None

\* C10 as stated: a free function with no C++ name override, a valid
\* identifier for name, POD-safe parameter and return types and a name no
\* registry has seen gives a result with no cpp_wrapper, cxxbridge_name and
\* rust_name both its own name, and rename strategy None.
C10_PlainFunctionPlainResult ==
    (apis # <<>> /\ IsPlainFunction(LastDecl) /\ NameUnused(LastDecl))
        => PlainResult(Len(apis))

\* C10, amended: the same of a function that is moreover not dropped (its
\* name does not end in _destructor) and not rejected before its return type
\* is looked at (its parameter names are valid cxx identifiers, it has no
\* unused-template and no move-constructor annotation).
C10_PlainFunctionAnalysedPlainResult ==
    ( /\ apis # <<>>
      /\ IsPlainFunction(LastDecl) /\ NameUnused(LastDecl)
      /\ ~ Dropped(LastDecl) /\ ~ RejectedEarly(LastDecl) )
        => PlainResult(Len(apis))

\* C10's case: f(a: int, b: int) -> int of the root namespace, analysed
\* after two other declarations that have results, and its result plain.
C10_Witness ==
    /\ Len(apis) = 3
    /\ Ok(1) /\ Ok(2)
    /\ LastDecl = Fn(Root, <<"f">>, None, <<IntA, IntB>>, Some(Path("int")), NoAttrs)
    /\ IsPlainFunction(LastDecl) /\ NameUnused(LastDecl)
    /\ PlainResult(3)

\* Owner_m(this: *Owner, ...): the first parameter is a receiver that points
\* to a type on the allowlist and is no virtual-dispatch placeholder, and m
\* does not start with Owner
IsOwnerMethodDecl(d) ==
    /\ d.inputs # <<>>
    /\ d.inputs[1].pat = <<"this">>
    /\ d.inputs[1].ty.shape = "Ptr"
    /\ ~ is_cvoid(d.inputs[1].ty.name)
    /\ d.inputs[1].ty.name \in config.allowlist
    /\ starts_with(d.ident, <<d.inputs[1].ty.name, "_">>)
    /\ ~ starts_with(skip(d.ident, 2), <<d.inputs[1].ty.name>>)
    /\ ~ ends_with(d.ident, <<"_", "destructor">>)

\* the receiver is the first parameter of the result, under the given name
ReceiverKept(i, pat) ==
    /\ Len(An(i).params) = Len(apis[i].inputs)
    /\ Len(An(i).param_details) = Len(apis[i].inputs)
    /\ An(i).param_details[1].name = <<"self">>
    /\ An(i).param_details[1].self_type = Some(apis[i].inputs[1].ty.name)
    /\ An(i).params[1].pat = pat
    /\ An(i).params[1].ty = Reference(apis[i].inputs[1].ty.name)

\* C11 as stated: the result of Owner_m(this: *Owner, ...) has kind Normal,
\* Rust name m, and its receiver first in the parameter list, named self.
C11_OwnerMethodNormal ==
    \A i \in Idx :
        (IsOwnerMethodDecl(apis[i]) /\ Ok(i)) =>
            /\ An(i).kind = FnKindMethod(apis[i].inputs[1].ty.name, "Normal")
            /\ An(i).rust_name = skip(apis[i].ident, 2)
            /\ ReceiverKept(i, <<"self">>)

\* C11, amended: the kind is Normal; the Rust name is the C++ name (m when
\* there is none), with an underscore after it if it is a Rust keyword, and
\* with the suffix the overload tracker adds when the name was seen before;
\* the receiver is first in the parameter list, named self, or
\* autocxx_gen_this in the cxx::bridge entry of a wrapper function.
C11_OwnerMethodNormalNamed ==
    \A i \in Idx :
        (IsOwnerMethodDecl(apis[i]) /\ Ok(i)) =>
            /\ An(i).kind = FnKindMethod(apis[i].inputs[1].ty.name, "Normal")
            /\ An(i).rust_name = with_offset(DeclIdeal(apis[i]), SeenBefore(i))
            /\ (apis[i].cpp_name = None /\ SeenBefore(i) = 0)
                   => An(i).rust_name = skip(apis[i].ident, 2)
            /\ ReceiverKept(i, IF HasWrapper(i) THEN <<"autocxx_gen_this">>
                               ELSE <<"self">>)

\* C11's case: W_m(this: *W, a: int) gives Normal, m and self; beside it a
\* method that needs a wrapper, its receiver autocxx_gen_this.
C11_Witness ==
    \E i, j \in Idx :
        /\ IsOwnerMethodDecl(apis[i]) /\ Ok(i) /\ ~ HasWrapper(i)
        /\ apis[i].ident = <<"W", "_", "m">>
        /\ An(i).kind = FnKindMethod("W", "Normal")
        /\ An(i).rust_name = <<"m">>
        /\ ReceiverKept(i, <<"self">>)
        /\ IsOwnerMethodDecl(apis[j]) /\ Ok(j) /\ HasWrapper(j)
        /\ ReceiverKept(j, <<"autocxx_gen_this">>)

\* Owner_<name>(this: *Owner), Owner on the allowlist, with no C++ name but
\* <name> and no annotation
IsBareMethodDecl(d, name) ==
    /\ d.inputs # <<>>
    /\ d.inputs[1].ty.name \in config.allowlist
    /\ is_cxx_acceptable_receiver(d.inputs[1].ty.name)
    /\ d = Method(d.ns, d.inputs[1].ty.name, name, 0,
                  <<This(Ptr(d.inputs[1].ty.name))>>, None, NoAttrs)

\* a constructor result with no parameter left
ConstructorWithoutReceiver(i, ty) ==
    /\ Ok(i)
    /\ An(i).kind = FnKindMethod(ty, "Constructor")
    /\ An(i).ret_type = Some(UniquePtr(ty))
    /\ An(i).params = <<>>
    /\ An(i).param_details = <<>>

Registries(a) ==
    [overload |-> a.overload_trackers_by_mod,
     bridge |-> a.bridge_name_tracker,
     rust |-> a.rust_name_tracker]

\* the type a receiver `this` points to: the virtual this type where the
\* pointer is the void placeholder
ReceiverType(d, k) ==
    IF d.inputs[k].ty.name = "c_void" /\ d.virtual_this_type # None
    THEN d.virtual_this_type[1]
    ELSE d.inputs[k].ty.name

\* the declaration has a receiver `this: *T`, or else is marked as a static
\* method of T, and T is off the allowlist
IsMethodOffAllowlist(d) ==
    /\ ~ ends_with(d.ident, <<"_", "destructor">>)
    /\ \/ \E k \in 1..Len(d.inputs) :
              /\ d.inputs[k] = This(Ptr(d.inputs[k].ty.name))
              /\ ReceiverType(d, k) \notin config.allowlist
              /\ \A j \in 1..(k - 1) : d.inputs[j].pat # <<"this">>
       \/ /\ \A k \in 1..Len(d.inputs) : d.inputs[k].pat # <<"this">>
          /\ d.self_ty # None
          /\ d.self_ty[1] \notin config.allowlist

\* C13: a method of a type off the allowlist gives no result and no error,
\* whatever its parameters and annotations, and the overload, bridge name
\* and Rust name trackers are after it what they were before it.
C13_MethodOffAllowlistDropped ==
    \A i \in Idx :
        IsMethodOffAllowlist(apis[i]) =>
            /\ outcomes[i].tag = "None"
            /\ i = Len(apis) => Registries(me) = Registries(me_before)

\* C13's case: a static method of V, off the allowlist, with a parameter
\* that fails, the move constructor and the template annotations, dropped
\* after W::W claimed names.
C13_Witness ==
    /\ Len(apis) >= 2
    /\ Ok(1)
    /\ Registries(me_before) # Registries(NewFnAnalyzer)
    /\ IsMethodOffAllowlist(LastDecl)
    /\ LastDecl.attrs.bindgen_unused_template_param_in_arg_or_return
    /\ LastDecl.attrs.bindgen_special_member = Some("move_ctor")
    /\ \E k \in 1..Len(LastDecl.inputs) : ~ validate_ident_ok_for_cxx(LastDecl.inputs[k].pat)
    /\ outcomes[Len(apis)].tag = "None"
    /\ Registries(me) = Registries(me_before)

\* C14: a declaration named ..._destructor gives no result and no error
\* and leaves the analyzer as it was: the three trackers and the extra
\* APIs, which the analysis of a parameter would have added to.  Every
\* other declaration of the run has the outcome, names included, of the
\* run without the destructor.
C14_DestructorDropped ==
    \A k \in Idx :
        ends_with(apis[k].ident, <<"_", "destructor">>) =>
            /\ outcomes[k].tag = "None"
            /\ k = Len(apis) => me = me_before
            /\ SubSeq(outcomes, 1, k - 1) \o SubSeq(outcomes, k + 1, Len(outcomes))
                   = RunOutcomes(NewFnAnalyzer, Without(k))

\* C14's case: a destructor whose parameters, analysed, would have added to
\* the extra APIs and failed, dropped between two declarations that claim
\* names.
C14_Witness ==
    /\ Len(apis) = 3
    /\ Ok(1) /\ Ok(3)
    /\ ends_with(apis[2].ident, <<"_", "destructor">>)
    /\ apis[2].attrs.bindgen_special_member = Some("move_ctor")
    /\ \E k \in 1..Len(apis[2].inputs) : ~ validate_ident_ok_for_cxx(apis[2].inputs[k].pat)
    /\ analyze_params(config, build_pod_safe_type_set, apis[2]).extra_apis # <<>>
    /\ outcomes[2].tag = "None"
    /\ me.extra_apis = <<>>
    /\ An(3).rust_name = with_offset(An(1).rust_name, 1)

ArgumentNeedsWork(i) ==
    \E k \in 1..Len(An(i).param_details) :
        An(i).param_details[k].conversion.conversion # "Unconverted"

\* by the return analysis the result was built from
ReturnNeedsWork(i) ==
    LET analysis == IF IsMethodOfKind(i, {"Constructor"})
                    THEN constructor_return_analysis(An(i).kind.self_ty)
                    ELSE DeclReturn(apis[i])
    IN  /\ analysis.conversion # None
        /\ analysis.conversion[1].conversion # "Unconverted"

\* C15: a result has a cpp_wrapper exactly when it is a Static, Virtual or
\* PureVirtual method, or a method whose name from the bridge name tracker
\* is not its rust_name, or one of its arguments or its return value needs
\* C++ work, or its C++ name (the override, else the rust_name) is no valid
\* Rust identifier.  A function that has none of these has no cpp_wrapper,
\* whether or not its cxx::bridge name is its rust_name.
C15_WrapperExactlyWhenNeeded ==
    \A i \in Idx :
        Ok(i) =>
            /\ HasWrapper(i) <=>
                   \/ IsMethodOfKind(i, {"Static", "Virtual", "PureVirtual"})
                   \/ IsMethod(i) /\ ~ NamesMatch(i)
                   \/ ArgumentNeedsWork(i)
                   \/ ReturnNeedsWork(i)
                   \/ ~ CppNameOk(i)
            /\ HasWrapper(i) => WrapperPresent(i)
            /\ (IsFunction(i) /\ ~ ArgumentNeedsWork(i) /\ ~ ReturnNeedsWork(i) /\ CppNameOk(i))
                   => ~ HasWrapper(i)

\* C15's case: a function whose cxx::bridge name is not its rust_name, with
\* no cpp_wrapper, and a Normal method wrapped for an argument of its.
C15_Witness ==
    \E i, j \in Idx :
        /\ IsFunction(i) /\ An(i).cxxbridge_name # An(i).rust_name /\ ~ HasWrapper(i)
        /\ IsMethodOfKind(j, {"Normal"}) /\ ArgumentNeedsWork(j) /\ WrapperPresent(j)
        /\ ~ ReturnNeedsWork(j) /\ CppNameOk(j)

\* a function result before the i-th has the rust_name of the i-th
ClaimedBefore(i) ==
    \E j \in 1..(i - 1) : IsFunction(j) /\ An(j).rust_name = An(i).rust_name

\* C16: a method result has strategy None and its rust_name for id.  A
\* function result has strategy None if its cxxbridge_name, wrapper suffix
\* included, is its rust_name; else RenameUsingRustAttr if no function
\* result before it has its rust_name; else RenameInOutputMod of its
\* rust_name, its id being its cxxbridge_name.  A function result adds its
\* rust_name to the Rust name tracker whatever its strategy, a method result
\* adds nothing.
C16_RenameStrategy ==
    \A i \in Idx :
        /\ IsMethod(i) =>
               /\ An(i).rust_rename_strategy = RenameNone
               /\ outcomes[i].id = An(i).rust_name
               /\ i = Len(apis) => me.rust_name_tracker = me_before.rust_name_tracker
        /\ IsFunction(i) =>
               /\ IF An(i).cxxbridge_name = An(i).rust_name
                  THEN An(i).rust_rename_strategy = RenameNone /\ outcomes[i].id = An(i).rust_name
                  ELSE IF ~ ClaimedBefore(i)
                  THEN /\ An(i).rust_rename_strategy = RenameUsingRustAttr
                       /\ outcomes[i].id = An(i).rust_name
                  ELSE /\ An(i).rust_rename_strategy = RenameInOutputMod(An(i).rust_name)
                       /\ outcomes[i].id = An(i).cxxbridge_name
               /\ i = Len(apis) =>
                      me.rust_name_tracker.names_found =
                          me_before.rust_name_tracker.names_found \cup {An(i).rust_name}
               /\ i = Len(apis) =>
                      ( ClaimedBefore(i) <=>
                          An(i).rust_name \in me_before.rust_name_tracker.names_found )

\* C16's case: a wrapped function renamed by attribute, a function that
\* needs no rename and whose name is then refused to a third, and a wrapped
\* method that keeps its name.
C16_Witness ==
    \E i, j, k \in Idx :
        /\ i < k
        /\ IsFunction(i) /\ An(i).rust_rename_strategy = RenameNone
        /\ IsFunction(k) /\ An(k).rust_name = An(i).rust_name
        /\ An(k).rust_rename_strategy = RenameInOutputMod(An(i).rust_name)
        /\ outcomes[k].id = An(k).cxxbridge_name
        /\ \/ IsFunction(j) /\ An(j).rust_rename_strategy = RenameUsingRustAttr /\ HasWrapper(j)
           \/ IsMethod(j) /\ HasWrapper(j) /\ An(j).cxxbridge_name # An(j).rust_name

\* the parameters `this` of the declaration that make a receiver
Receivers(d) ==
    {k \in 1..Len(d.inputs) :
        /\ d.inputs[k].pat = <<"this">>
        /\ d.inputs[k].ty.shape = "Ptr"
        /\ d.inputs[k].ty.name = "c_void" => d.virtual_this_type # None}

\* the owning type: that of the first receiver, else the marker
OwningType(d) ==
    IF Receivers(d) # {}
    THEN ReceiverType(d, CHOOSE k \in Receivers(d) : \A j \in Receivers(d) : k <= j)
    ELSE d.self_ty[1]

\* a receiver that stands for a virtual this
HasVirtualParam(d) ==
    \E k \in Receivers(d) : d.inputs[k].ty.name = "c_void"

\* the kind the declaration is to be given
ExpectedKind(d) ==
    IF Receivers(d) = {} /\ d.self_ty = None THEN FnKindFunction
    ELSE FnKindMethod(OwningType(d),
             IF starts_with(strip_type_prefix(OwningType(d),
                                              ideal_rust_name(d.cpp_name, d.ident)),
                            <<OwningType(d)>>)
             THEN "Constructor"
             ELSE IF Receivers(d) = {} THEN "Static"
             ELSE IF HasVirtualParam(d) /\ d.attrs.bindgen_pure_virtual THEN "PureVirtual"
             ELSE IF HasVirtualParam(d) THEN "Virtual"
             ELSE "Normal")

\* C17: the kind of a result is Function when its declaration has neither
\* a receiver nor a marker of its owning type; else it is a method of the
\* owning type: a Constructor if it is named after the type, else Static if
\* it has no receiver, else PureVirtual if a parameter is a virtual this
\* and it is annotated pure virtual, else Virtual if a parameter is a
\* virtual this, else Normal.
C17_KindPrecedence ==
    \A i \in Idx : Ok(i) => An(i).kind = ExpectedKind(apis[i])

\* C17's case: a constructor from a declaration with a virtual this and
\* the pure virtual annotation, a Static method from one annotated pure
\* virtual, and a PureVirtual method.
C17_Witness ==
    \E i, j, k \in Idx :
        /\ Ok(i) /\ Ok(j) /\ Ok(k)
        /\ HasVirtualParam(apis[i]) /\ apis[i].attrs.bindgen_pure_virtual
        /\ An(i).kind.method_kind = "Constructor"
        /\ Receivers(apis[j]) = {} /\ apis[j].attrs.bindgen_pure_virtual
        /\ An(j).kind.method_kind = "Static"
        /\ An(k).kind.method_kind = "PureVirtual"

\* C18: for a type by value, an argument is Unconverted if the type is
\* POD-safe, else FromStr if it is a string type and the utilities are not
\* excluded, else FromUniquePtr; a return value is Unconverted if the type is
\* POD-safe, else ToUniquePtr.  No argument is ToUniquePtr, no return value
\* is FromUniquePtr or FromStr, and a type of any other shape is Unconverted
\* either way.  The policy keeps the type it was asked about.
C18_ClassifierByDirection ==
    \A k \in 1..Len(classified) :
        LET c == classified[k]
        IN  /\ c.policy.unwrapped_type = c.ty
            /\ c.ty.shape = "Path" =>
                   c.policy.conversion =
                       IF c.ty.name \in build_pod_safe_type_set THEN "Unconverted"
                       ELSE IF c.direction = "Return" THEN "ToUniquePtr"
                       ELSE IF c.ty.name \in KnownStringTypes /\ ~ config.exclude_utilities
                       THEN "FromStr"
                       ELSE "FromUniquePtr"
            /\ c.ty.shape # "Path" => c.policy.conversion = "Unconverted"
            /\ c.direction = "Argument" => c.policy.conversion # "ToUniquePtr"
            /\ c.direction = "Return" =>
                   c.policy.conversion \notin {"FromUniquePtr", "FromStr"}

\* C18's case: the string type by value, FromStr as an argument and
\* ToUniquePtr as a return value.
C18_Witness ==
    \E j, k \in 1..Len(classified) :
        /\ classified[j].ty = Path("string") /\ classified[k].ty = Path("string")
        /\ classified[j].direction = "Argument"
        /\ classified[j].policy.conversion = "FromStr"
        /\ classified[k].direction = "Return"
        /\ classified[k].policy.conversion = "ToUniquePtr"

\* the parameters of the declaration that fail their analysis
BadParams(d) ==
    {k \in 1..Len(d.inputs) :
        \/ d.inputs[k].pat # <<"this">> /\ ~ validate_ident_ok_for_cxx(d.inputs[k].pat)
        \/ d.inputs[k].pat # <<"this">> /\ d.inputs[k].ty.shape = "Array"
        \/ d.inputs[k].pat = <<"this">> /\ k \notin Receivers(d)}

\* the kind of error the gates of analyze_foreign_fn are to find first, ""
\* when they find none
ExpectedRejection(d) ==
    IF BadParams(d) # {}
    THEN LET first == d.inputs[CHOOSE k \in BadParams(d) : \A j \in BadParams(d) : k <= j]
         IN  IF first.pat = <<"this">>
             THEN IF first.ty.shape # "Ptr" THEN "UnexpectedThisType" ELSE "VirtualThisType"
             ELSE IF ~ validate_ident_ok_for_cxx(first.pat) THEN "InvalidIdent"
             ELSE "UnsupportedType"
    ELSE IF d.attrs.bindgen_unused_template_param_in_arg_or_return
    THEN "UnusedTemplateParam"
    ELSE IF d.attrs.bindgen_special_member = Some("move_ctor")
    THEN "MoveConstructorUnsupported"
    ELSE IF /\ ExpectedKind(d).fn = "Method"
            /\ ExpectedKind(d).method_kind # "Static"
            /\ ExpectedKind(d).self_ty \in UnacceptableReceivers
    THEN "UnsupportedReceiver"
    ELSE IF ExpectedKind(d).method_kind = "Constructor" THEN ""
    ELSE IF d.output # None /\ d.output[1].shape = "Array" THEN "UnsupportedType"
    ELSE IF /\ d.output # None
            /\ \/ d.output[1].shape = "Reference"
               \/ d.output[1].shape = "Ptr" /\ d.attrs.bindgen_ret_type_reference
            /\ NumReferences(DeclParams(d).param_details) # 1
    THEN "NotOneInputReference"
    ELSE ""

\* the context of an error names the function, or the method and its type
HasIdentityContext(i) ==
    /\ outcomes[i].ctx.variant =
           (IF ExpectedKind(apis[i]).fn = "Method" THEN "Method" ELSE "Item")
    /\ outcomes[i].ctx.self_ty = ExpectedKind(apis[i]).self_ty
    /\ outcomes[i].ctx.name # <<>>

\* C19: a declaration one of whose parameters fails is rejected with the
\* error of the first such parameter, in the context of the function or
\* method, whatever its annotations, receiver and return type.  Else it
\* is rejected for the unused template parameter, else as a move
\* constructor, else for its receiver, else for its return type, else for a
\* reference returned without exactly one reference taken, else for a
\* cxx::bridge name that is no identifier.  (Of the declarations that are
\* not dropped as destructors or as methods of a type off the allowlist.)
C19_GateOrder ==
    \A i \in Idx :
        ( /\ ~ ends_with(apis[i].ident, <<"_", "destructor">>)
          /\ ~ IsMethodOffAllowlist(apis[i]) ) =>
            IF ExpectedRejection(apis[i]) # ""
            THEN /\ outcomes[i].tag = "Err"
                 /\ outcomes[i].err.kind = ExpectedRejection(apis[i])
                 /\ HasIdentityContext(i)
                 /\ BadParams(apis[i]) # {} =>
                        outcomes[i].err =
                            DeclParams(apis[i]).bads[1]
            ELSE \/ Ok(i) /\ validate_ident_ok_for_cxx(An(i).cxxbridge_name)
                 \/ /\ outcomes[i].tag = "Err"
                    /\ outcomes[i].err.kind = "InvalidIdent"
                    /\ ~ validate_ident_ok_for_cxx(outcomes[i].err.name)
                    /\ HasIdentityContext(i)

\* how often the overload tracker of the namespace has seen the name of the
\* declaration, for its owning type if it has one
OverloadCount(a, d) ==
    LET tracker == overload_tracker_entry(a.overload_trackers_by_mod, d.ns)
        ideal == ideal_rust_name(d.cpp_name, d.ident)
    IN  IF ExpectedKind(d).fn = "Function"
        THEN Get(tracker.offset_by_name, ideal)
        ELSE Get(tracker.offset_by_type_and_name,
                 <<OwningType(d), strip_type_prefix(OwningType(d), ideal)>>)

\* C20: a declaration rejected with an error has been counted by the
\* overload tracker and has taken a name in the bridge name tracker, and
\* has left the Rust name tracker as it was.  Every declaration, rejected
\* or not, has the name with the numeric suffix that counts every
\* declaration before it of the same name, namespace and owning type, the
\* rejected ones included.
C20_RejectedKeepsClaims ==
    \A i \in Idx :
        /\ (outcomes[i].tag = "Err" /\ i = Len(apis)) =>
               /\ OverloadCount(me, apis[i]) = OverloadCount(me_before, apis[i]) + 1
               /\ me_before.bridge_name_tracker.used \subseteq me.bridge_name_tracker.used
               /\ Cardinality(me.bridge_name_tracker.used) =
                      Cardinality(me_before.bridge_name_tracker.used) + 1
               /\ me.rust_name_tracker = me_before.rust_name_tracker
               /\ OverloadCount(me, apis[i]) = SeenBefore(i) + 1
        /\ outcomes[i].tag \in {"Err", "Ok"} =>
               AssignedRustName(i) =
                   IF ExpectedKind(apis[i]).method_kind = "Constructor"
                   THEN ConstructorName(i)
                   ELSE with_offset(DeclIdeal(apis[i]), SeenBefore(i))

\* C20's case: a function rejected for a parameter, and after it a function
\* of the same name and namespace that is given the suffix 1, under a
\* cxx::bridge name of its own.
C20_Witness ==
    \E i, j \in Idx :
        /\ i < j
        /\ outcomes[i].tag = "Err" /\ Ok(j)
        /\ apis[i].ns = apis[j].ns
        /\ DeclIdeal(apis[i]) = DeclIdeal(apis[j])
        /\ outcomes[i].ctx.name = DeclIdeal(apis[i])
        /\ An(j).rust_name = with_offset(DeclIdeal(apis[i]), 1)
        /\ outcomes[i].ctx.name \in me.bridge_name_tracker.used
        /\ outcomes[i].ctx.name \notin me.rust_name_tracker.names_found

\* C21: whenever a declaration is classified Constructor (it is not dropped
\* and its name, the type prefix stripped, starts with the name of its owning
\* type), its analysed parameters are not empty and the first of them is the
\* receiver: the removal of the first one does not panic and removes no
\* parameter but the receiver.
C21_ConstructorRemovesReceiver ==
    \A i \in Idx :
        ( /\ ~ ends_with(apis[i].ident, <<"_", "destructor">>)
          /\ ~ IsMethodOffAllowlist(apis[i])
          /\ ExpectedKind(apis[i]).method_kind = "Constructor" ) =>
            /\ outcomes[i].tag # "Panic"
            /\ DeclParams(apis[i]).param_details # <<>>
            /\ DeclParams(apis[i]).param_details[1].self_type # None
            /\ Ok(i) => /\ An(i).param_details = Tail(DeclParams(apis[i]).param_details)
                        /\ \A k \in 1..Len(An(i).param_details) :
                               An(i).param_details[k].self_type = None

====
